---- MODULE Spec2Model ----
(***************************************************************************)
(* MailWatch: the rule-matching and notification-dispatch engine.          *)
(*                                                                         *)
(* Two implementations of the engine run against the same stores:          *)
(*   - the client engine  src/lib/ruleEngine.ts (matchesRule,              *)
(*     applyRuleActions, processEmails), driven by the poller              *)
(*     src/lib/emailMonitor.ts, by the "apply rules" button and by         *)
(*     processAllTodayEmails in src/lib/whatsappService.ts;                *)
(*   - the server engine, the process-rules edge function                  *)
(*     src/supabase/functions/gmail-setup-watch/index.ts (lines 695-1063), *)
(*     driven by cron and by the Gmail webhook.                            *)
(* An invocation of either engine is a task; tasks interleave at every     *)
(* await of the source.                                                    *)
(***************************************************************************)
EXTENDS Naturals, Integers, Sequences, FiniteSets, Bags, TLC

\* ------------------------------------------------------------------ bounds
NumMsgs == 1
NumRules == 2
NumTasks == 2
MaxRuns == 2
MaxFaults == 1
MaxLen == 2
MaxCalls == 4
MaxChecks == 3
OldMsgs == 2
MaxArrivals == 501
NumHandlers == 2
MaxHistory == 2
NumCalls == 2
NumUsers == 2
MaxChannels == 3

\* ------------------------------------------------------- program constants
MAX_STORED_IDS == 500
FetchSize == 20

RuleStatus_ACTIVE == "Ativo"
RuleStatus_PAUSED == "Pausado"

RuleCondition_CONTAINS == "Contem"
RuleCondition_STARTS_WITH == "Comeca com"
RuleCondition_EXACT == "E exatamente"
RuleCondition_ENDS_WITH == "Termina com"
RuleCondition_ALWAYS == "Sempre"

\* ------------------------------------------------------------------- text
\* A text is a sequence of one-character strings.
toLowerCase(s) ==
    [k \in 1..Len(s) |->
        CASE s[k] = "A" -> "a"
          [] s[k] = "B" -> "b"
          [] s[k] = "I" -> "i"
          [] s[k] = "N" -> "n"
          [] OTHER -> s[k]]

startsWith(t, f) == Len(f) <= Len(t) /\ SubSeq(t, 1, Len(f)) = f

endsWith(t, f) == Len(f) <= Len(t) /\ SubSeq(t, Len(t) - Len(f) + 1, Len(t)) = f

includes(t, f) ==
    \E k \in 0..Len(t) : k + Len(f) <= Len(t) /\ SubSeq(t, k + 1, k + Len(f)) = f

\* --------------------------------------------------------------- messages
MsgIds == 1..NumMsgs

\* The inbox content: odd messages carry the subject "In", even ones "b".
Message(m) ==
    [id |-> m,
     subject |-> IF m % 2 = 1 THEN <<"I", "n">> ELSE <<"b">>,
     from |-> <<"a">>,
     snippet |-> <<"n", "b">>]

\* ------------------------------------------------------------------ rules
RuleIds == 1..NumRules

NoActions == [markAsRead |-> FALSE, archive |-> FALSE, applyLabel |-> ""]

\* Rows of the rules table, as the rule editor can have stored them.
RulePrototypes ==
    << [subjectFilter |-> <<"i", "n">>, senderFilter |-> <<>>, keywords |-> <<>>,
        condition |-> RuleCondition_CONTAINS, status |-> RuleStatus_ACTIVE,
        notification_emails |-> <<"e1", "e2">>, whatsapp_numbers |-> <<>>,
        actions |-> [NoActions EXCEPT !.markAsRead = TRUE, !.applyLabel = "L"]],
       [subjectFilter |-> <<"I">>, senderFilter |-> <<>>, keywords |-> <<>>,
        condition |-> RuleCondition_STARTS_WITH, status |-> RuleStatus_ACTIVE,
        notification_emails |-> <<>>, whatsapp_numbers |-> <<>>,
        actions |-> [NoActions EXCEPT !.archive = TRUE]],
       [subjectFilter |-> <<>>, senderFilter |-> <<>>, keywords |-> <<>>,
        condition |-> RuleCondition_ALWAYS, status |-> RuleStatus_ACTIVE,
        notification_emails |-> <<"e1">>, whatsapp_numbers |-> <<"w1">>,
        actions |-> [NoActions EXCEPT !.applyLabel = "L"]],
       [subjectFilter |-> <<"i", "n">>, senderFilter |-> <<"a">>, keywords |-> <<<<"b">>>>,
        condition |-> RuleCondition_EXACT, status |-> RuleStatus_PAUSED,
        notification_emails |-> <<"e1">>, whatsapp_numbers |-> <<"w1">>,
        actions |-> NoActions],
       [subjectFilter |-> <<"N">>, senderFilter |-> <<>>, keywords |-> <<>>,
        condition |-> RuleCondition_CONTAINS, status |-> RuleStatus_ACTIVE,
        notification_emails |-> <<"e1">>, whatsapp_numbers |-> <<>>,
        actions |-> NoActions] >>

NumPrototypes == Len(RulePrototypes)

\* The table in which rule r holds prototype first, first + 1, ... (cyclically).
RuleTable(first) ==
    [r \in RuleIds |->
        [id |-> r] @@ RulePrototypes[((first + r - 2) % NumPrototypes) + 1]]

\* ruleService.fetchRules: the client's view of the rules table.  The object
\* it builds for a row has the keys id, name, subjectFilter, condition,
\* notificationEmails, whatsappNumbers, status, icon and createdAt only, so
\* the keys the client engine reads besides those (senderFilter, keywords,
\* notificationEmail, whatsappNumber, actions) are undefined on it.
fetchRules(table) ==
    [k \in 1..NumRules |->
        LET row == table[NumRules + 1 - k] IN
        [id |-> row.id,
         subjectFilter |-> row.subjectFilter,
         condition |-> row.condition,
         status |-> row.status,
         notificationEmails |-> row.notification_emails,
         whatsappNumbers |-> row.whatsapp_numbers,
         senderFilter |-> <<>>,
         keywords |-> <<>>,
         notificationEmail |-> "",
         whatsappNumber |-> "",
         actions |-> NoActions]]

\* A Rule as src/types.ts and the rule editor shape it: one notification
\* address and one WhatsApp number (the first of the stored lists, if any).
EditorRule(row) ==
    [id |-> row.id,
     subjectFilter |-> row.subjectFilter,
     condition |-> row.condition,
     status |-> row.status,
     notificationEmails |-> row.notification_emails,
     whatsappNumbers |-> row.whatsapp_numbers,
     senderFilter |-> row.senderFilter,
     keywords |-> row.keywords,
     notificationEmail |-> IF row.notification_emails = <<>> THEN "" ELSE row.notification_emails[1],
     whatsappNumber |-> IF row.whatsapp_numbers = <<>> THEN "" ELSE row.whatsapp_numbers[1],
     actions |-> row.actions]

\* ---------------------------------------------------------------- matcher
\* The keywords of a rule found in the subject or the snippet.
MatchedKeywords(subject, snippet, keywords) ==
    SelectSeq(keywords,
              LAMBDA kw : \/ includes(toLowerCase(subject), toLowerCase(kw))
                          \/ includes(toLowerCase(snippet), toLowerCase(kw)))

\* ruleEngine.matchesRule: the criteria an email meets; it matches iff the
\* list is not empty.
matchesRule(email, rule) ==
    LET subjectLC == toLowerCase(email.subject)
        filterLC == toLowerCase(rule.subjectFilter)
        subjectMatch ==
            CASE rule.condition = RuleCondition_EXACT -> subjectLC = filterLC
              [] rule.condition = RuleCondition_STARTS_WITH -> startsWith(subjectLC, filterLC)
              [] rule.condition = RuleCondition_ENDS_WITH -> endsWith(subjectLC, filterLC)
              [] rule.condition = RuleCondition_ALWAYS -> TRUE
              [] OTHER -> includes(subjectLC, filterLC)
        c1 == IF rule.subjectFilter # <<>> /\ subjectMatch THEN <<"subject">> ELSE <<>>
        c2 == IF /\ rule.senderFilter # <<>>
                 /\ includes(toLowerCase(email.from), toLowerCase(rule.senderFilter))
              THEN <<"sender">> ELSE <<>>
        c3 == IF /\ Len(rule.keywords) > 0
                 /\ Len(MatchedKeywords(email.subject, email.snippet, rule.keywords)) > 0
              THEN <<"keywords">> ELSE <<>>
    IN  c1 \o c2 \o c3

\* A checkMatch that tests every condition as a substring test.
checkMatch_AlwaysContains(text, filter, condition) ==
    text # <<>> /\ includes(toLowerCase(text), toLowerCase(filter))

\* checkMatch of the process-rules function.
checkMatch(text, filter, condition) ==
    IF text = <<>> THEN FALSE
    ELSE LET t == toLowerCase(text)
             f == toLowerCase(filter)
         IN  CASE condition = RuleCondition_EXACT -> t = f
               [] condition = RuleCondition_STARTS_WITH -> startsWith(t, f)
               [] condition = RuleCondition_ENDS_WITH -> endsWith(t, f)
               [] condition = RuleCondition_ALWAYS -> TRUE
               [] OTHER -> includes(t, f)

\* The match logic of the process-rules function: its matchedCriteria.
serverMatch(email, rule) ==
    LET hasSubjectReq == rule.subjectFilter # <<>>
        hasSenderReq == rule.senderFilter # <<>>
        hasKeywordsReq == Len(rule.keywords) > 0
        c1 == IF hasSubjectReq /\ checkMatch(email.subject, rule.subjectFilter, rule.condition)
              THEN <<"subject">> ELSE <<>>
        c2 == IF /\ hasSenderReq
                 /\ includes(toLowerCase(email.from), toLowerCase(rule.senderFilter))
              THEN <<"sender">> ELSE <<>>
        c3 == IF /\ hasKeywordsReq
                 /\ Len(MatchedKeywords(email.subject, email.snippet, rule.keywords)) > 0
              THEN <<"keywords">> ELSE <<>>
        c4 == IF /\ rule.condition = RuleCondition_ALWAYS
                 /\ ~hasSubjectReq /\ ~hasSenderReq /\ ~hasKeywordsReq
              THEN <<"always">> ELSE <<>>
    IN  c1 \o c2 \o c3 \o c4

\* ------------------------------------------------------------------ state
VARIABLES
    rules,              \* the rules table (read-only to the engine)
    probe,              \* a message and a rule handed to the matchers alone
    instance,           \* a WhatsApp instance is connected for the account
    mailbox,            \* Gmail: the label ids of every message
    processed_emails,   \* the dedup store: a bag of marker rows
    notifications,      \* the notification history: a bag of rows
    logs,               \* the activity log: a bag of rows
    localIds,           \* localStorage mailwatch_processed_emails of the poller
    tasks,              \* the running invocations of the two engines
    runs,               \* invocations started so far
    faults,             \* failures of the collaborators injected so far
    delivered,          \* (message, rule) pairs with a successful send
    dispatchCount,      \* per pair: evaluations with a send that succeeded
    actionCount,        \* per pair: evaluations with an accepted inbox mutation
    raced,              \* pairs whose dedup check overlapped another evaluation
    skips,              \* matching pairs skipped as already handled
    monitor,            \* the EmailMonitor singleton and the browser's timers
    poller,             \* the inbox the poller lists and its check in flight
    webhook,            \* the Gmail push deliveries and the stored history_id
    realtime            \* the RealtimeService singleton and its channels

vars == <<rules, instance, probe, mailbox, processed_emails, notifications, logs,
          localIds, tasks, runs, faults, delivered, dispatchCount,
          actionCount, raced, skips, monitor, poller, webhook, realtime>>

stores == <<processed_emails, notifications, logs>>
ghosts == <<delivered, dispatchCount, actionCount, raced, skips>>
services == <<monitor, poller, webhook, realtime>>
env == <<rules, instance, probe, services>>

TaskIds == 1..NumTasks
Pairs == MsgIds \X RuleIds

ClientKinds == {"poll", "today", "apply", "direct"}
ServerKinds == {"cron", "webhook"}

IdleTask ==
    [pc |-> "idle", kind |-> "none",
     emails |-> <<>>, fetched |-> <<>>, ruleList |-> <<>>, i |-> 1, j |-> 1,
     criteria |-> <<>>, actions |-> <<>>,
     emailSent |-> FALSE, whatsAppSent |-> FALSE,
     emailError |-> FALSE, whatsAppError |-> FALSE,
     matches |-> 0, visited |-> {}, errLogs |-> 0, thrown |-> 0,
     attempts |-> {}, calls |-> {}, opResults |-> {},
     notifRows |-> <<>>, logRows |-> <<>>,
     marked |-> FALSE, threw |-> FALSE, evaluated |-> FALSE,
     loadFailed |-> FALSE, authFailed |-> FALSE, error |-> FALSE,
     historyFailed |-> FALSE]

\* The per-pair locals of applyRuleActions / of the server's matched branch.
FreshPair(T) ==
    [T EXCEPT !.criteria = <<>>, !.actions = <<>>,
              !.emailSent = FALSE, !.whatsAppSent = FALSE,
              !.emailError = FALSE, !.whatsAppError = FALSE,
              !.attempts = {}, !.calls = {}, !.opResults = {},
              !.notifRows = <<>>,
              !.logRows = <<>>, !.marked = FALSE, !.threw = FALSE,
              !.evaluated = FALSE]

\* The constants of the poller.
DefaultIntervalMs == 60000
MinIntervalMs == 30000

\* The EmailMonitor after construction: no interval timer, not running, the
\* default interval; the browser has handed out no timer and no check was
\* issued.
NoMonitor ==
    [intervalId |-> 0, isRunning |-> FALSE, checkIntervalMs |-> DefaultIntervalMs,
     timers |-> {}, nextTimer |-> 1, checks |-> 0, calls |-> 0,
     lastCall |-> "none", wasRunning |-> FALSE]

\* No check of the poller is in flight.
NoCheck == [pc |-> "idle", emails |-> <<>>, unprocessed |-> <<>>]

\* The poller's view of Gmail before any mail: an empty inbox, no check in
\* flight, no check completed.
NoPoller ==
    [inbox |-> <<>>, arrived |-> 0, check |-> NoCheck,
     lastFetched |-> <<>>, handled |-> {}]

\* A gmail-webhook invocation that has not received a request.
IdleHandler ==
    [pc |-> "idle", historyId |-> 0, known |-> FALSE, userFound |-> FALSE,
     invokeError |-> FALSE, messages |-> <<>>, last |-> "none"]

\* The account right after gmail-setup-watch stored the history_id of the
\* watch (written 0 here): no message added since, no push published, no
\* webhook invocation running, nothing supplied to rule matching.
NoWebhook ==
    [cursor |-> 0, history |-> 0, pending |-> {},
     handlers |-> [h \in 1..NumHandlers |-> IdleHandler],
     evaluated |-> {}, faults |-> 0]

\* No call of the RealtimeService is in flight.
NoCall == [pc |-> "idle", op |-> "none", userId |-> 0, removing |-> 0]

\* The RealtimeService after construction: no channel (0 stands for null),
\* not connected, no user; the supabase client has no channel open.
NoRealtime ==
    [channel |-> 0, isConnected |-> FALSE, currentUserId |-> 0,
     live |-> {}, created |-> 0,
     calls |-> [c \in 1..NumCalls |-> NoCall]]

\* No message and no rule is handed to the matchers alone.
NoProbe ==
    [email |-> [subject |-> <<>>, from |-> <<>>, snippet |-> <<>>],
     rule |-> [subjectFilter |-> <<>>, senderFilter |-> <<>>, keywords |-> <<>>,
               condition |-> RuleCondition_CONTAINS],
     clientDone |-> FALSE, client |-> <<>>,
     serverDone |-> FALSE, server |-> <<>>]

\* The poller is stopped, no push was delivered, no channel is open.
ServicesIdle ==
    /\ monitor = NoMonitor
    /\ poller = NoPoller
    /\ webhook = NoWebhook
    /\ realtime = NoRealtime

Init ==
    /\ \E first \in 1..NumPrototypes : rules = RuleTable(first)
    /\ probe = NoProbe
    /\ ServicesIdle
    /\ instance \in BOOLEAN
    /\ mailbox = [m \in MsgIds |-> {"INBOX", "UNREAD"}]
    /\ processed_emails = EmptyBag
    /\ notifications = EmptyBag
    /\ logs = EmptyBag
    /\ localIds = <<>>
    /\ tasks = [t \in TaskIds |-> IdleTask]
    /\ runs = 0
    /\ faults = 0
    /\ delivered = {}
    /\ dispatchCount = [p \in Pairs |-> 0]
    /\ actionCount = [p \in Pairs |-> 0]
    /\ raced = {}
    /\ skips = {}

\* ---------------------------------------------------------------- helpers
Insert(table, row) == table (+) SetToBag({row})

\* A marker table without a key: every insert adds a row.
InsertMarker_NoKey(table, row) == Insert(table, row)

\* The insert of a marker.  The definition of the table is not among the
\* sources; as documented, (message_id, rule_id) is its key: a second row for
\* a pair fails on the uniqueness constraint, and the callers, which never
\* read the result of the insert, carry on.
InsertMarker(table, row) ==
    IF \E old \in BagToSet(table) :
            old.message_id = row.message_id /\ old.rule_id = row.rule_id
    THEN table
    ELSE Insert(table, row)

Range(s) == {s[k] : k \in 1..Len(s)}

\* The messages of the inbox that satisfy a label query, in id order.
ListMessages(labels) ==
    SelectSeq([k \in 1..NumMsgs |-> k], LAMBDA m : labels \subseteq mailbox[m])

\* A dedup query that selects no row, whatever the store holds.
HasBeenProcessed_Never(m, r) == FALSE

\* select id from processed_emails where message_id = m and rule_id = r limit 1
HasBeenProcessed(m, r) ==
    \E row \in BagToSet(processed_emails) : row.message_id = m /\ row.rule_id = r

\* The rule object a task evaluates: fetchRules' object for the client runs,
\* the editor's Rule for a direct applyRuleActions, the table row on the server.
ClientRule(kind, r) ==
    IF kind = "direct" THEN EditorRule(rules[r])
    ELSE fetchRules(rules)[NumRules + 1 - r]

\* rules.filter(r => r.status === RuleStatus.ACTIVE), as a list of rule ids
ActiveRuleIds(list) ==
    LET act == SelectSeq(list, LAMBDA rule : rule.status = RuleStatus_ACTIVE)
    IN  [k \in 1..Len(act) |-> act[k].id]

\* .from("rules").select("*").eq("status", "Ativo"), as a list of rule ids
ServerRuleIds ==
    SelectSeq([k \in 1..NumRules |-> k], LAMBDA r : rules[r].status = "Ativo")

CurMsg(T) == T.emails[T.i]
CurRule(T) == T.ruleList[T.j]
CurPair(T) == <<CurMsg(T), CurRule(T)>>

\* A task is between its dedup check and the end of its evaluation of pair p.
Evaluating(T, p) ==
    /\ T.pc \in {"actions", "email", "wa", "record", "mark"}
    /\ CurPair(T) = p

\* A pipeline that writes the marker before it records the outcome.
StageAfter_MarkBeforeRecord(stage) ==
    CASE stage = "check" -> "actions"
      [] stage = "actions" -> "email"
      [] stage = "email" -> "wa"
      [] stage = "wa" -> "mark"
      [] stage = "mark" -> "record"
      [] OTHER -> "end"

\* The order of the statements that handle one pair, each awaited before
\* the next: dedup check, inbox actions, email sends, WhatsApp sends, the
\* notification and log inserts, the marker insert.
StageAfter(stage) ==
    CASE stage = "check" -> "actions"
      [] stage = "actions" -> "email"
      [] stage = "email" -> "wa"
      [] stage = "wa" -> "record"
      [] stage = "record" -> "mark"
      [] OTHER -> "end"

\* The lowest idle slot takes the next invocation.
CanStart(t) ==
    /\ runs < MaxRuns
    /\ tasks[t].pc = "idle"
    /\ \A u \in TaskIds : u < t => tasks[u].pc # "idle"

\* The ways n calls can turn out when `budget` more failures may be injected.
Outcomes(n, results, budget) ==
    {o \in [1..n -> results] : Cardinality({k \in 1..n : o[k] # "ok"}) <= budget}

\* --------------------------------------------------- the client's triggers
\* Matching pairs a trigger leaves out of the run because it takes their
\* message as handled; each is noted with whether its own marker existed.
SkippedPairs(msgs, by) ==
    {[message_id |-> m, rule_id |-> r, by |-> by, hadMarker |-> HasBeenProcessed(m, r)] :
        <<m, r>> \in {p \in Pairs :
            /\ p[1] \in msgs
            /\ rules[p[2]].status = RuleStatus_ACTIVE
            /\ matchesRule(Message(p[1]), ClientRule(by, p[2])) # <<>>}}

\* emailMonitor.checkAndProcess up to the call of ruleEngine.processEmails:
\* fetch the inbox, drop the ids localStorage holds.
StartPoll(t) ==
    /\ CanStart(t)
    /\ LET emails == ListMessages({"INBOX"})
           unprocessedEmails == SelectSeq(emails, LAMBDA m : m \notin Range(localIds))
       IN  /\ tasks' = [tasks EXCEPT ![t] =
                IF unprocessedEmails = <<>> THEN IdleTask
                ELSE [IdleTask EXCEPT !.pc = "load", !.kind = "poll",
                                      !.emails = unprocessedEmails, !.fetched = emails]]
           /\ skips' = skips \cup SkippedPairs(Range(emails) \cap Range(localIds), "poll")
    /\ runs' = runs + 1
    /\ UNCHANGED <<env, mailbox, stores, localIds, faults, delivered,
                   dispatchCount, actionCount, raced>>

\* ruleEngine.processAllTodayEmails, steps 1 and 2: without a signed-in
\* user the call throws into its own catch and returns zero counts with an
\* error message; otherwise it fetches today's inbox.
StartToday(t) ==
    /\ CanStart(t)
    /\ \E o \in Outcomes(1, {"ok", "none"}, MaxFaults - faults) :
         LET allTodayEmails == ListMessages({"INBOX"})
         IN  /\ tasks' = [tasks EXCEPT ![t] =
                    IF o[1] = "none"
                    THEN [IdleTask EXCEPT !.pc = "finish", !.kind = "today",
                                          !.authFailed = TRUE, !.error = TRUE]
                    ELSE IF allTodayEmails = <<>> THEN IdleTask
                    ELSE [IdleTask EXCEPT !.pc = "select", !.kind = "today",
                                          !.fetched = allTodayEmails]]
             /\ faults' = faults + (IF o[1] = "ok" THEN 0 ELSE 1)
    /\ runs' = runs + 1
    /\ UNCHANGED <<env, mailbox, stores, localIds, ghosts>>

\* ruleEngine.processAllTodayEmails, steps 3-5: drop every message that has
\* a marker under any rule, process the rest.
TodaySelect(t) ==
    /\ tasks[t].pc = "select"
    /\ LET processedIds == {row.message_id : row \in BagToSet(processed_emails)}
           unprocessedEmails == SelectSeq(tasks[t].fetched, LAMBDA m : m \notin processedIds)
       IN  /\ tasks' = [tasks EXCEPT ![t] =
                IF unprocessedEmails = <<>> THEN IdleTask
                ELSE [@ EXCEPT !.pc = "load", !.emails = unprocessedEmails]]
           /\ skips' = skips \cup
                SkippedPairs(Range(tasks[t].fetched) \cap processedIds, "today")
    /\ UNCHANGED <<env, mailbox, stores, localIds, runs, faults, delivered,
                   dispatchCount, actionCount, raced>>

\* EmailList.handleApplyRules: processEmails on the listed inbox.
StartApply(t) ==
    /\ CanStart(t)
    /\ ListMessages({"INBOX"}) # <<>>
    /\ tasks' = [tasks EXCEPT ![t] =
            [IdleTask EXCEPT !.pc = "load", !.kind = "apply",
                             !.emails = ListMessages({"INBOX"})]]
    /\ runs' = runs + 1
    /\ UNCHANGED <<env, mailbox, stores, localIds, faults, ghosts>>

\* ruleEngine.applyRuleActions called with a message and an editor Rule.
StartDirect(t) ==
    /\ CanStart(t)
    /\ \E m \in MsgIds, r \in RuleIds :
         tasks' = [tasks EXCEPT ![t] =
            [IdleTask EXCEPT !.pc = "check", !.kind = "direct",
                             !.emails = <<m>>, !.ruleList = <<r>>]]
    /\ runs' = runs + 1
    /\ UNCHANGED <<env, mailbox, stores, localIds, faults, ghosts>>

\* ------------------------------------------------ ruleEngine.processEmails
\* fetchRules and the ACTIVE filter; no active rule ends the run.  When the
\* query fails fetchRules logs the error and returns the empty list.
ClientLoad(t) ==
    /\ tasks[t].pc = "load"
    /\ tasks[t].kind \in ClientKinds
    /\ \E o \in Outcomes(1, {"ok", "fail"}, MaxFaults - faults) :
         LET fetched == IF o[1] = "ok" THEN fetchRules(rules) ELSE <<>>
             activeRules == ActiveRuleIds(fetched)
         IN  /\ tasks' = [tasks EXCEPT ![t] =
                    IF activeRules = <<>>
                    THEN [@ EXCEPT !.pc = "finish", !.loadFailed = (o[1] # "ok")]
                    ELSE [@ EXCEPT !.pc = "next", !.ruleList = activeRules]]
             /\ faults' = faults + (IF o[1] = "ok" THEN 0 ELSE 1)
    /\ UNCHANGED <<env, mailbox, stores, localIds, runs, ghosts>>

\* The loops over emails and active rules: matchesRule on the next pair; a
\* match is counted and handed to applyRuleActions.
ClientNext(t) ==
    /\ tasks[t].pc = "next"
    /\ tasks[t].kind \in ClientKinds
    /\ LET T == tasks[t]
           criteria == matchesRule(Message(CurMsg(T)), ClientRule(T.kind, CurRule(T)))
       IN  tasks' = [tasks EXCEPT ![t] =
                IF T.i > Len(T.emails) THEN [T EXCEPT !.pc = "finish"]
                ELSE IF criteria # <<>>
                     THEN [T EXCEPT !.pc = "check", !.criteria = criteria,
                                    !.matches = @ + 1,
                                    !.visited = @ \cup {CurPair(T)}]
                     ELSE [T EXCEPT !.pc = "end", !.visited = @ \cup {CurPair(T)}]]
    /\ UNCHANGED <<env, mailbox, stores, localIds, runs, faults, ghosts>>

\* --------------------------------------------- ruleEngine.applyRuleActions
\* The inbox mutations a rule configures, in the order the engines issue them.
ConfiguredOps(actions) ==
    SelectSeq(<<"markAsRead", "archive", "applyLabel">>,
              LAMBDA op : CASE op = "markAsRead" -> actions.markAsRead
                            [] op = "archive" -> actions.archive
                            [] OTHER -> actions.applyLabel # "")

\* Modify calls that end with the first one that is not accepted.
OpResults_StopAtFailure(ops, o) ==
    {[op |-> ops[k], result |-> o[k]] :
        k \in {x \in 1..Len(ops) : \A y \in 1..(x - 1) : o[y] = "ok"}}

\* The modify calls of an evaluation and what each came to: every
\* configured one is issued, whatever the others returned.
OpResults(ops, o) == {[op |-> ops[k], result |-> o[k]] : k \in 1..Len(ops)}

\* Gmail messages.modify: the labels of a message after the mutations that
\* succeeded (removeLabelIds UNREAD, removeLabelIds INBOX, addLabelIds).
ModifyLabels(labels, okOps, actions) ==
    ((labels \ (IF "markAsRead" \in okOps THEN {"UNREAD"} ELSE {}))
             \ (IF "archive" \in okOps THEN {"INBOX"} ELSE {}))
        \cup (IF "applyLabel" \in okOps THEN {actions.applyLabel} ELSE {})

\* Pairs another task is evaluating while task t checks pair p.
Overlap(t, p) ==
    IF \E u \in TaskIds \ {t} : Evaluating(tasks[u], p) THEN {p} ELSE {}

\* The dedup check: an existing marker ends the evaluation at once.  Then
\* supabase.auth.getUser: without a user applyRuleActions throws into its
\* catch before any action.
ClientCheck(t) ==
    /\ tasks[t].pc = "check"
    /\ tasks[t].kind \in ClientKinds
    /\ LET T == tasks[t]
           p == CurPair(T)
       IN  IF HasBeenProcessed(p[1], p[2])
           THEN /\ tasks' = [tasks EXCEPT ![t].pc = "end"]
                /\ skips' = skips \cup {[message_id |-> p[1], rule_id |-> p[2],
                                         by |-> T.kind, hadMarker |-> TRUE]}
                /\ UNCHANGED <<raced, faults>>
           ELSE \E o \in Outcomes(1, {"ok", "none"}, MaxFaults - faults) :
                /\ tasks' = [tasks EXCEPT ![t] =
                        IF o[1] = "ok"
                        THEN [T EXCEPT !.pc = StageAfter("check"), !.evaluated = TRUE]
                        ELSE [T EXCEPT !.pc = "catch", !.evaluated = TRUE,
                                       !.threw = TRUE, !.thrown = @ + 1,
                                       !.authFailed = TRUE]]
                /\ faults' = faults + (IF o[1] = "ok" THEN 0 ELSE 1)
                /\ skips' = skips
                /\ raced' = raced \cup Overlap(t, p)
    /\ UNCHANGED <<env, mailbox, stores, localIds, runs, delivered,
                   dispatchCount, actionCount>>

\* markAsRead, archiveEmail, applyLabel: each returns whether Gmail accepted
\* it; its description is pushed either way.
ClientActions(t) ==
    /\ tasks[t].pc = "actions"
    /\ tasks[t].kind \in ClientKinds
    /\ LET T == tasks[t]
           p == CurPair(T)
           rule == ClientRule(T.kind, p[2])
           ops == ConfiguredOps(rule.actions)
       IN  \E o \in Outcomes(Len(ops), {"ok", "fail"}, MaxFaults - faults) :
             LET made == OpResults(ops, o)
                 okOps == {c.op : c \in {x \in made : x.result = "ok"}}
             IN  /\ mailbox' = [mailbox EXCEPT ![p[1]] = ModifyLabels(@, okOps, rule.actions)]
                 /\ tasks' = [tasks EXCEPT ![t] =
                        [T EXCEPT !.pc = StageAfter("actions"), !.actions = @ \o ops,
                                  !.calls = {c.op : c \in made},
                                  !.opResults = made]]
                 /\ faults' = faults + Cardinality({k \in 1..Len(ops) : o[k] # "ok"})
                 /\ actionCount' = IF okOps = {} THEN actionCount
                                   ELSE [actionCount EXCEPT ![p] = @ + 1]
    /\ UNCHANGED <<env, stores, localIds, runs, delivered, dispatchCount, raced, skips>>

\* gmailService.sendEmail to rule.notificationEmail; it reports a failure
\* in its result and never throws.
ClientEmail(t) ==
    /\ tasks[t].pc = "email"
    /\ tasks[t].kind \in ClientKinds
    /\ LET T == tasks[t]
           p == CurPair(T)
           rule == ClientRule(T.kind, p[2])
       IN  IF rule.notificationEmail = ""
           THEN /\ tasks' = [tasks EXCEPT ![t].pc = StageAfter("email")]
                /\ UNCHANGED <<faults, delivered, dispatchCount>>
           ELSE \E o \in Outcomes(1, {"ok", "fail"}, MaxFaults - faults) :
                  /\ tasks' = [tasks EXCEPT ![t] =
                        [T EXCEPT !.pc = StageAfter("email"),
                                  !.emailSent = (o[1] = "ok"),
                                  !.emailError = (o[1] # "ok"),
                                  !.actions = IF o[1] = "ok" THEN @ \o <<"email">> ELSE @,
                                  !.attempts = @ \cup {[channel |-> "email",
                                        to |-> rule.notificationEmail, result |-> o[1]]}]]
                  /\ faults' = faults + (IF o[1] = "ok" THEN 0 ELSE 1)
                  /\ delivered' = IF o[1] = "ok" THEN delivered \cup {p} ELSE delivered
                  /\ dispatchCount' = IF o[1] = "ok"
                                      THEN [dispatchCount EXCEPT ![p] = @ + 1]
                                      ELSE dispatchCount
    /\ UNCHANGED <<env, mailbox, stores, localIds, runs, actionCount, raced, skips>>

\* whatsappService.sendTextMessage to rule.whatsappNumber when an instance
\* is connected; it throws on failure and the throw is caught on the spot.
ClientWhatsApp(t) ==
    /\ tasks[t].pc = "wa"
    /\ tasks[t].kind \in ClientKinds
    /\ LET T == tasks[t]
           p == CurPair(T)
           rule == ClientRule(T.kind, p[2])
       IN  IF rule.whatsappNumber = "" \/ ~instance
           THEN /\ tasks' = [tasks EXCEPT ![t].pc = StageAfter("wa")]
                /\ UNCHANGED <<faults, delivered, dispatchCount>>
           ELSE \E o \in Outcomes(1, {"ok", "throw"}, MaxFaults - faults) :
                  /\ tasks' = [tasks EXCEPT ![t] =
                        [T EXCEPT !.pc = StageAfter("wa"),
                                  !.whatsAppSent = (o[1] = "ok"),
                                  !.whatsAppError = (o[1] # "ok"),
                                  !.actions = IF o[1] = "ok" THEN @ \o <<"whatsapp">> ELSE @,
                                  !.attempts = @ \cup {[channel |-> "whatsapp",
                                        to |-> rule.whatsappNumber, result |-> o[1]]}]]
                  /\ faults' = faults + (IF o[1] = "ok" THEN 0 ELSE 1)
                  /\ delivered' = IF o[1] = "ok" THEN delivered \cup {p} ELSE delivered
                  /\ dispatchCount' = IF o[1] = "ok" /\ ~T.emailSent
                                      THEN [dispatchCount EXCEPT ![p] = @ + 1]
                                      ELSE dispatchCount
    /\ UNCHANGED <<env, mailbox, stores, localIds, runs, actionCount, raced, skips>>

\* The recipient column of the client's notification row.
ClientRecipients(rule) ==
    (IF rule.notificationEmail = "" THEN <<>>
     ELSE <<[channel |-> "email", to |-> rule.notificationEmail]>>)
    \o (IF rule.whatsappNumber = "" THEN <<>>
        ELSE <<[channel |-> "whatsapp", to |-> rule.whatsappNumber]>>)

\* A client that writes one notification row per channel it read.
ClientNotificationRows_PerChannel(T, rule) ==
    [k \in 1..Len(ClientRecipients(rule)) |->
        [rule_id |-> rule.id,
         status |-> IF \E a \in T.attempts :
                          /\ a.channel = ClientRecipients(rule)[k].channel
                          /\ a.result = "ok"
                    THEN "sent" ELSE "failed",
         recipient |-> <<ClientRecipients(rule)[k]>>,
         error |-> T.emailError \/ T.whatsAppError]]

\* The rows the client writes for a match: one notification, one log.
ClientNotificationRows(T, rule) ==
    << [rule_id |-> rule.id,
        status |-> IF T.emailSent \/ T.whatsAppSent THEN "sent" ELSE "failed",
        recipient |-> ClientRecipients(rule),
        error |-> T.emailError \/ T.whatsAppError] >>

ClientLogRow(T, rule) ==
    [rule_id |-> rule.id, title |-> "aplicada",
     status |-> IF T.emailSent \/ T.whatsAppSent THEN "success" ELSE "error",
     details |-> T.actions]

ErrorLogRow(r) ==
    [rule_id |-> r, title |-> "erro", status |-> "error", details |-> <<>>]

InsertAll(table, rows) == table (+) [row \in Range(rows) |->
                                        Cardinality({k \in 1..Len(rows) : rows[k] = row})]

\* notificationService.addNotification, then logService.addLog; either
\* throws when its insert fails, which applyRuleActions catches.
ClientRecord(t) ==
    /\ tasks[t].pc = "record"
    /\ tasks[t].kind \in ClientKinds
    /\ LET T == tasks[t]
           rule == ClientRule(T.kind, CurRule(T))
           rows == ClientNotificationRows(T, rule)
           log == ClientLogRow(T, rule)
       IN  \E o \in Outcomes(2, {"ok", "throw"}, MaxFaults - faults) :
             /\ o[1] = "throw" => o[2] = "ok"
             /\ notifications' = IF o[1] = "ok" THEN InsertAll(notifications, rows)
                                 ELSE notifications
             /\ logs' = IF o[1] = "ok" /\ o[2] = "ok" THEN Insert(logs, log) ELSE logs
             /\ tasks' = [tasks EXCEPT ![t] =
                    IF o[1] = "ok" /\ o[2] = "ok"
                    THEN [T EXCEPT !.pc = StageAfter("record"), !.notifRows = rows, !.logRows = <<log>>]
                    ELSE [T EXCEPT !.pc = "catch", !.threw = TRUE, !.thrown = @ + 1,
                                   !.notifRows = IF o[1] = "ok" THEN rows ELSE <<>>]]
             /\ faults' = faults + (IF o[1] = "ok" /\ o[2] = "ok" THEN 0 ELSE 1)
    /\ UNCHANGED <<env, mailbox, processed_emails, localIds, runs, ghosts>>

\* A client that writes the marker whatever the sends returned.
ClientShouldMark_Always(emailSent, whatsAppSent) == TRUE

\* The client writes the marker only when a channel delivered.
ClientShouldMark(emailSent, whatsAppSent) == emailSent \/ whatsAppSent

ClientMark(t) ==
    /\ tasks[t].pc = "mark"
    /\ tasks[t].kind \in ClientKinds
    /\ LET T == tasks[t]
           p == CurPair(T)
       IN  IF ClientShouldMark(T.emailSent, T.whatsAppSent)
           THEN /\ processed_emails' = InsertMarker(processed_emails,
                        [message_id |-> p[1], rule_id |-> p[2],
                         action_type |-> "rule_execution"])
                /\ tasks' = [tasks EXCEPT ![t] = [T EXCEPT !.pc = StageAfter("mark"), !.marked = TRUE]]
           ELSE /\ processed_emails' = processed_emails
                /\ tasks' = [tasks EXCEPT ![t].pc = StageAfter("mark")]
    /\ UNCHANGED <<env, mailbox, notifications, logs, localIds, runs, faults, ghosts>>

\* The catch of applyRuleActions: an error log row; the call returns false.
\* When that insert fails too, the throw ends processEmails.
ClientCatch(t) ==
    /\ tasks[t].pc = "catch"
    /\ tasks[t].kind \in ClientKinds
    /\ LET T == tasks[t]
           log == ErrorLogRow(CurRule(T))
       IN  \E o \in Outcomes(1, {"ok", "throw"}, MaxFaults - faults) :
             /\ logs' = IF o[1] = "ok" THEN Insert(logs, log) ELSE logs
             /\ tasks' = [tasks EXCEPT ![t] =
                    IF o[1] = "ok"
                    THEN [T EXCEPT !.pc = "end", !.logRows = <<log>>, !.errLogs = @ + 1]
                    ELSE [T EXCEPT !.pc = "finish"]]
             /\ faults' = faults + (IF o[1] = "ok" THEN 0 ELSE 1)
    /\ UNCHANGED <<env, mailbox, processed_emails, notifications, localIds, runs, ghosts>>

\* The end of one pair: the loops move on (a direct call returns).
PairEnd(t) ==
    /\ tasks[t].pc = "end"
    /\ LET T == tasks[t]
           last == T.j >= Len(T.ruleList)
       IN  tasks' = [tasks EXCEPT ![t] =
                IF T.kind = "direct" THEN IdleTask
                ELSE [FreshPair(T) EXCEPT !.pc = "next",
                                          !.i = IF last THEN T.i + 1 ELSE T.i,
                                          !.j = IF last THEN 1 ELSE T.j + 1]]
    /\ UNCHANGED <<env, mailbox, stores, localIds, runs, faults, ghosts>>

\* emailMonitor.saveProcessedIds: the ids in insertion order, the last
\* MAX_STORED_IDS of them kept.
saveProcessedIds(ids) ==
    IF Len(ids) <= MAX_STORED_IDS THEN ids
    ELSE SubSeq(ids, Len(ids) - MAX_STORED_IDS + 1, Len(ids))

\* emailMonitor.markAsProcessed: add the ids of the fetched emails.
markAsProcessed(stored, emails) ==
    saveProcessedIds(stored \o SelectSeq(emails, LAMBDA m : m \notin Range(stored)))

\* processEmails returns; the poller then marks every fetched email.
ClientFinish(t) ==
    /\ tasks[t].pc = "finish"
    /\ tasks[t].kind \in ClientKinds
    /\ localIds' = IF tasks[t].kind = "poll"
                   THEN markAsProcessed(localIds, tasks[t].fetched)
                   ELSE localIds
    /\ tasks' = [tasks EXCEPT ![t] = IdleTask]
    /\ UNCHANGED <<env, mailbox, stores, runs, faults, ghosts>>

\* ------------------------------------------- the process-rules function
\* A cron invocation: no userId, no mode.
StartCron(t) ==
    /\ CanStart(t)
    /\ tasks' = [tasks EXCEPT ![t] = [IdleTask EXCEPT !.pc = "load", !.kind = "cron"]]
    /\ runs' = runs + 1
    /\ UNCHANGED <<env, mailbox, stores, localIds, faults, ghosts>>

\* An invocation by gmail-webhook: mode 'incremental', a userId and the
\* historyId of the push; the account has a stored history_id.
StartWebhook(t) ==
    /\ CanStart(t)
    /\ tasks' = [tasks EXCEPT ![t] = [IdleTask EXCEPT !.pc = "load", !.kind = "webhook"]]
    /\ runs' = runs + 1
    /\ UNCHANGED <<env, mailbox, stores, localIds, faults, ghosts>>

\* The messages of step 4.  Full scan: the unread inbox.  Incremental: the
\* messages history.list reports as added to the inbox since the stored
\* history_id; when history.list answers non-ok the status is logged and
\* the list stays empty.
FetchMessages(kind, historyOk) ==
    IF kind = "webhook"
    THEN (IF historyOk THEN ListMessages({"INBOX"}) ELSE <<>>)
    ELSE ListMessages({"INBOX", "UNREAD"})

\* Steps 3 and 4: the rules with status 'Ativo' (none, or a failed query
\* whose data is null: next user), then the messages.  `fetched` notes what
\* the full scan lists at that moment.
ServerLoad(t) ==
    /\ tasks[t].pc = "load"
    /\ tasks[t].kind \in ServerKinds
    /\ \E o \in Outcomes(2, {"ok", "fail"}, MaxFaults - faults) :
         LET active == IF o[1] = "ok" THEN ServerRuleIds ELSE <<>>
         IN  /\ active = <<>> \/ tasks[t].kind = "cron" => o[2] = "ok"
             /\ tasks' = [tasks EXCEPT ![t] =
                    IF active = <<>>
                    THEN [@ EXCEPT !.pc = "finish", !.loadFailed = (o[1] # "ok")]
                    ELSE [@ EXCEPT !.pc = "next", !.ruleList = active,
                                   !.emails = FetchMessages(tasks[t].kind, o[2] = "ok"),
                                   !.fetched = ListMessages({"INBOX", "UNREAD"}),
                                   !.historyFailed = (o[2] # "ok")]]
             /\ faults' = faults + Cardinality({k \in 1..2 : o[k] # "ok"})
    /\ UNCHANGED <<env, mailbox, stores, localIds, runs, ghosts>>

\* The loops over messages and rules.
ServerNext(t) ==
    /\ tasks[t].pc = "next"
    /\ tasks[t].kind \in ServerKinds
    /\ LET T == tasks[t]
       IN  tasks' = [tasks EXCEPT ![t] =
                IF T.i > Len(T.emails) THEN [T EXCEPT !.pc = "finish"]
                ELSE [T EXCEPT !.pc = "check", !.visited = @ \cup {CurPair(T)}]]
    /\ UNCHANGED <<env, mailbox, stores, localIds, runs, faults, ghosts>>

\* The per-rule dedup check, then the match logic.
ServerCheck(t) ==
    /\ tasks[t].pc = "check"
    /\ tasks[t].kind \in ServerKinds
    /\ LET T == tasks[t]
           p == CurPair(T)
           matchedCriteria == serverMatch(Message(p[1]), rules[p[2]])
       IN  IF HasBeenProcessed(p[1], p[2])
           THEN /\ tasks' = [tasks EXCEPT ![t].pc = "end"]
                /\ skips' = IF matchedCriteria = <<>> THEN skips
                            ELSE skips \cup {[message_id |-> p[1], rule_id |-> p[2],
                                              by |-> T.kind, hadMarker |-> TRUE]}
                /\ raced' = raced
           ELSE /\ tasks' = [tasks EXCEPT ![t] =
                     IF matchedCriteria = <<>> THEN [T EXCEPT !.pc = "end"]
                     ELSE [T EXCEPT !.pc = StageAfter("check"), !.criteria = matchedCriteria,
                                    !.matches = @ + 1, !.evaluated = TRUE]]
                /\ skips' = skips
                /\ raced' = IF matchedCriteria = <<>> THEN raced
                            ELSE raced \cup Overlap(t, p)
    /\ UNCHANGED <<env, mailbox, stores, localIds, runs, faults, delivered,
                   dispatchCount, actionCount>>

\* actionPromises: the configured modify calls, awaited together.  A call
\* that resolves pushes its description; one that rejects rejects the await.
ServerActions(t) ==
    /\ tasks[t].pc = "actions"
    /\ tasks[t].kind \in ServerKinds
    /\ LET T == tasks[t]
           p == CurPair(T)
           rule == rules[p[2]]
           ops == ConfiguredOps(rule.actions)
       IN  \E o \in Outcomes(Len(ops), {"ok", "fail", "throw"}, MaxFaults - faults) :
             LET made == OpResults(ops, o)
                 okOps == {c.op : c \in {x \in made : x.result = "ok"}}
                 threw == \E k \in 1..Len(ops) : o[k] = "throw"
             IN  /\ mailbox' = [mailbox EXCEPT ![p[1]] = ModifyLabels(@, okOps, rule.actions)]
                 /\ tasks' = [tasks EXCEPT ![t] =
                        [T EXCEPT !.pc = IF threw THEN "catch" ELSE StageAfter("actions"),
                                  !.threw = threw,
                                  !.thrown = IF threw THEN @ + 1 ELSE @,
                                  !.actions = @ \o SelectSeq(ops,
                                        LAMBDA op : \E k \in 1..Len(ops) :
                                            ops[k] = op /\ o[k] # "throw"),
                                  !.calls = {c.op : c \in made},
                                  !.opResults = made]]
                 /\ faults' = faults + Cardinality({k \in 1..Len(ops) : o[k] # "ok"})
                 /\ actionCount' = IF okOps = {} THEN actionCount
                                   ELSE [actionCount EXCEPT ![p] = @ + 1]
    /\ UNCHANGED <<env, stores, localIds, runs, delivered, dispatchCount, raced, skips>>

\* One fan-out of the server: a send per recipient, all issued before any
\* is awaited; sent is set by an ok response, a rejected fetch rejects the
\* Promise.all.
FanOut(t, channel, recipients, nextPc) ==
    LET T == tasks[t]
        p == CurPair(T)
        n == Len(recipients)
    IN  \E o \in Outcomes(n, {"ok", "fail", "throw"}, MaxFaults - faults) :
          LET sent == \E k \in 1..n : o[k] = "ok"
              threw == \E k \in 1..n : o[k] = "throw"
              made == {[channel |-> channel, to |-> recipients[k], result |-> o[k]] :
                            k \in 1..n}
          IN  /\ tasks' = [tasks EXCEPT ![t] =
                    [T EXCEPT !.pc = IF threw THEN "catch" ELSE nextPc,
                              !.threw = threw,
                              !.thrown = IF threw THEN @ + 1 ELSE @,
                              !.emailSent = IF channel = "email" THEN sent ELSE @,
                              !.whatsAppSent = IF channel = "whatsapp" THEN sent ELSE @,
                              !.actions = @ \o [k \in 1..Cardinality({x \in 1..n : o[x] = "ok"}) |-> channel],
                              !.attempts = @ \cup made]]
              /\ faults' = faults + Cardinality({k \in 1..n : o[k] # "ok"})
              /\ delivered' = IF sent THEN delivered \cup {p} ELSE delivered
              /\ dispatchCount' = IF sent /\ ~(T.emailSent \/ T.whatsAppSent)
                                  THEN [dispatchCount EXCEPT ![p] = @ + 1]
                                  ELSE dispatchCount

\* Email notifications to rule.notification_emails.
ServerEmail(t) ==
    /\ tasks[t].pc = "email"
    /\ tasks[t].kind \in ServerKinds
    /\ FanOut(t, "email", rules[CurRule(tasks[t])].notification_emails, StageAfter("email"))
    /\ UNCHANGED <<env, mailbox, stores, localIds, runs, actionCount, raced, skips>>

\* WhatsApp notifications to rule.whatsapp_numbers, when the account has an
\* instance.
ServerWhatsApp(t) ==
    /\ tasks[t].pc = "wa"
    /\ tasks[t].kind \in ServerKinds
    /\ FanOut(t, "whatsapp",
              IF instance THEN rules[CurRule(tasks[t])].whatsapp_numbers ELSE <<>>,
              StageAfter("wa"))
    /\ UNCHANGED <<env, mailbox, stores, localIds, runs, actionCount, raced, skips>>

\* allRecipients: every configured address and every number as WA:number.
ServerRecipients(rule) ==
    [k \in 1..Len(rule.notification_emails) |->
        [channel |-> "email", to |-> rule.notification_emails[k]]]
    \o [k \in 1..Len(rule.whatsapp_numbers) |->
        [channel |-> "whatsapp", to |-> rule.whatsapp_numbers[k]]]

\* A server that writes one notification row per recipient.
ServerNotificationRows_PerRecipient(T, rule) ==
    [k \in 1..Len(ServerRecipients(rule)) |->
        [rule_id |-> rule.id,
         status |-> IF \E a \in T.attempts :
                          /\ a.channel = ServerRecipients(rule)[k].channel
                          /\ a.to = ServerRecipients(rule)[k].to
                          /\ a.result = "ok"
                    THEN "sent" ELSE "failed",
         recipient |-> <<ServerRecipients(rule)[k]>>,
         error |-> FALSE]]

\* The rows the server writes for a match: one notification, one log.
ServerNotificationRows(T, rule) ==
    << [rule_id |-> rule.id,
        status |-> IF T.emailSent \/ T.whatsAppSent THEN "sent" ELSE "failed",
        recipient |-> ServerRecipients(rule),
        error |-> FALSE] >>

ServerLogRow(T, rule) ==
    [rule_id |-> rule.id, title |-> "aplicada",
     status |-> IF T.emailSent \/ T.whatsAppSent THEN "success" ELSE "info",
     details |-> T.actions]

\* The inserts into notifications and logs.
ServerRecord(t) ==
    /\ tasks[t].pc = "record"
    /\ tasks[t].kind \in ServerKinds
    /\ LET T == tasks[t]
           rule == rules[CurRule(T)]
           rows == ServerNotificationRows(T, rule)
           log == ServerLogRow(T, rule)
       IN  /\ notifications' = InsertAll(notifications, rows)
           /\ logs' = Insert(logs, log)
           /\ tasks' = [tasks EXCEPT ![t] =
                [T EXCEPT !.pc = StageAfter("record"), !.notifRows = rows, !.logRows = <<log>>]]
    /\ UNCHANGED <<env, mailbox, processed_emails, localIds, runs, faults, ghosts>>

\* The insert into processed_emails, whatever the sends returned.
ServerMark(t) ==
    /\ tasks[t].pc = "mark"
    /\ tasks[t].kind \in ServerKinds
    /\ LET p == CurPair(tasks[t])
       IN  processed_emails' = InsertMarker(processed_emails,
                [message_id |-> p[1], rule_id |-> p[2],
                 action_type |-> "rule_execution_background"])
    /\ tasks' = [tasks EXCEPT ![t] = [@ EXCEPT !.pc = StageAfter("mark"), !.marked = TRUE]]
    /\ UNCHANGED <<env, mailbox, notifications, logs, localIds, runs, faults, ghosts>>

\* The per-user catch: a debug line, then the next user; with one user the
\* invocation is over.
ServerCatch(t) ==
    /\ tasks[t].pc = "catch"
    /\ tasks[t].kind \in ServerKinds
    /\ tasks' = [tasks EXCEPT ![t].pc = "finish"]
    /\ UNCHANGED <<env, mailbox, stores, localIds, runs, faults, ghosts>>

\* The 200 response.
ServerFinish(t) ==
    /\ tasks[t].pc = "finish"
    /\ tasks[t].kind \in ServerKinds
    /\ tasks' = [tasks EXCEPT ![t] = IdleTask]
    /\ UNCHANGED <<env, mailbox, stores, localIds, runs, faults, ghosts>>

\* ---------------------------------------------------------- specification
Next ==
    \E t \in TaskIds :
        \/ StartPoll(t)
        \/ StartToday(t)
        \/ TodaySelect(t)
        \/ StartApply(t)
        \/ StartDirect(t)
        \/ ClientLoad(t)
        \/ ClientNext(t)
        \/ ClientCheck(t)
        \/ ClientActions(t)
        \/ ClientEmail(t)
        \/ ClientWhatsApp(t)
        \/ ClientRecord(t)
        \/ ClientMark(t)
        \/ ClientCatch(t)
        \/ ClientFinish(t)
        \/ PairEnd(t)
        \/ StartCron(t)
        \/ StartWebhook(t)
        \/ ServerLoad(t)
        \/ ServerNext(t)
        \/ ServerCheck(t)
        \/ ServerActions(t)
        \/ ServerEmail(t)
        \/ ServerWhatsApp(t)
        \/ ServerRecord(t)
        \/ ServerMark(t)
        \/ ServerCatch(t)
        \/ ServerFinish(t)

Spec == Init /\ [][Next]_vars

\* ------------------------------------------------------ the matchers alone
\* The texts of at most n characters over an alphabet with both cases.
Texts(n) == UNION {[1..k -> {"I", "i", "n"}] : k \in 0..n}

\* The messages handed to the matchers: any subject (the empty one is a
\* message without a Subject header), two senders, two snippets.
ProbeEmails ==
    [subject : Texts(MaxLen), from : {<<"A">>, <<"b">>}, snippet : {<<>>, <<"N">>}]

\* The rules handed to the matchers: any subject filter (empty: none), a
\* sender filter or none, a keyword or none, every condition of the enum and
\* a value outside it.
ProbeRules ==
    [subjectFilter : Texts(MaxLen), senderFilter : {<<>>, <<"a">>},
     keywords : {<<>>, << <<"n">> >>},
     condition : {RuleCondition_CONTAINS, RuleCondition_STARTS_WITH,
                  RuleCondition_EXACT, RuleCondition_ENDS_WITH,
                  RuleCondition_ALWAYS, "Outra"}]

MatchInit ==
    /\ rules = RuleTable(1)
    /\ instance = FALSE
    /\ \E e \in ProbeEmails, r \in ProbeRules :
            probe = [NoProbe EXCEPT !.email = e, !.rule = r]
    /\ ServicesIdle
    /\ mailbox = [m \in MsgIds |-> {"INBOX", "UNREAD"}]
    /\ processed_emails = EmptyBag
    /\ notifications = EmptyBag
    /\ logs = EmptyBag
    /\ localIds = <<>>
    /\ tasks = [t \in TaskIds |-> IdleTask]
    /\ runs = 0
    /\ faults = 0
    /\ delivered = {}
    /\ dispatchCount = [p \in Pairs |-> 0]
    /\ actionCount = [p \in Pairs |-> 0]
    /\ raced = {}
    /\ skips = {}

\* ruleEngine.matchesRule applied to the message and the rule.
MatchClient ==
    /\ ~probe.clientDone
    /\ probe' = [probe EXCEPT !.clientDone = TRUE,
                              !.client = matchesRule(probe.email, probe.rule)]
    /\ UNCHANGED <<rules, instance, mailbox, stores, localIds, tasks, runs,
                   faults, ghosts, services>>

\* The match logic of the process-rules function applied to them.
MatchServer ==
    /\ ~probe.serverDone
    /\ probe' = [probe EXCEPT !.serverDone = TRUE,
                              !.server = serverMatch(probe.email, probe.rule)]
    /\ UNCHANGED <<rules, instance, mailbox, stores, localIds, tasks, runs,
                   faults, ghosts, services>>

MatchNext == MatchClient \/ MatchServer

MatchSpec == MatchInit /\ [][MatchNext]_vars

\* ------------------------------------------------- the poller's timer alone
\* The engine's stores and tasks, which the services below leave alone.
engine == <<rules, instance, probe, mailbox, stores, localIds, tasks, runs,
            faults, ghosts>>

EngineIdle ==
    /\ rules = RuleTable(1)
    /\ instance = FALSE
    /\ probe = NoProbe
    /\ mailbox = [m \in MsgIds |-> {"INBOX", "UNREAD"}]
    /\ processed_emails = EmptyBag
    /\ notifications = EmptyBag
    /\ logs = EmptyBag
    /\ localIds = <<>>
    /\ tasks = [t \in TaskIds |-> IdleTask]
    /\ runs = 0
    /\ faults = 0
    /\ delivered = {}
    /\ dispatchCount = [p \in Pairs |-> 0]
    /\ actionCount = [p \in Pairs |-> 0]
    /\ raced = {}
    /\ skips = {}

\* The intervals callers pass, in ms; 0 stands for an omitted argument.
IntervalArgs == {1000, 30000, 60000, 90000}

\* A start that never takes the poller for running.
AlreadyRunning_Never(intervalId) == FALSE

\* `if (this.intervalId)` of start: window.setInterval hands out ids >= 1.
AlreadyRunning(intervalId) == intervalId # 0

Max(a, b) == IF a >= b THEN a ELSE b

\* EmailMonitor.start: nothing when already running; else take the interval
\* passed (if any), issue a check at once, create the interval timer.
start(M, intervalMs) ==
    IF AlreadyRunning(M.intervalId) THEN M
    ELSE LET ms == IF intervalMs # 0 THEN intervalMs ELSE M.checkIntervalMs
         IN  [M EXCEPT !.checkIntervalMs = ms,
                       !.checks = @ + 1,
                       !.timers = @ \cup {[id |-> M.nextTimer, ms |-> ms]},
                       !.intervalId = M.nextTimer,
                       !.nextTimer = @ + 1,
                       !.isRunning = TRUE]

\* EmailMonitor.stop: clear the timer held, if any.
stop(M) ==
    IF M.intervalId # 0
    THEN [M EXCEPT !.timers = {tm \in @ : tm.id # M.intervalId},
                   !.intervalId = 0,
                   !.isRunning = FALSE]
    ELSE M

\* EmailMonitor.setInterval: the interval, at least 30 s; a running poller
\* is stopped and started again.
setInterval(M, intervalMs) ==
    LET M1 == [M EXCEPT !.checkIntervalMs = Max(MinIntervalMs, intervalMs)]
    IN  IF M1.isRunning THEN start(stop(M1), 0) ELSE M1

\* A call of the poller's interface, noted as the last one.
Called(M, name) ==
    [M EXCEPT !.calls = monitor.calls + 1, !.lastCall = name,
              !.wasRunning = monitor.isRunning]

MonitorInit == EngineIdle /\ ServicesIdle

MonitorStart ==
    /\ monitor.calls < MaxCalls /\ monitor.checks < MaxChecks
    /\ \E intervalMs \in IntervalArgs \cup {0} :
            monitor' = Called(start(monitor, intervalMs), "start")
    /\ UNCHANGED <<engine, poller, webhook, realtime>>

MonitorStop ==
    /\ monitor.calls < MaxCalls
    /\ monitor' = Called(stop(monitor), "stop")
    /\ UNCHANGED <<engine, poller, webhook, realtime>>

MonitorSetInterval ==
    /\ monitor.calls < MaxCalls /\ monitor.checks < MaxChecks
    /\ \E intervalMs \in IntervalArgs :
            monitor' = Called(setInterval(monitor, intervalMs), "setInterval")
    /\ UNCHANGED <<engine, poller, webhook, realtime>>

\* An interval timer of the browser fires: its callback issues a check.
MonitorTick ==
    /\ monitor.checks < MaxChecks
    /\ monitor.timers # {}
    /\ monitor' = [monitor EXCEPT !.checks = @ + 1]
    /\ UNCHANGED <<engine, poller, webhook, realtime>>

MonitorNext == MonitorStart \/ MonitorStop \/ MonitorSetInterval \/ MonitorTick

MonitorSpec == MonitorInit /\ [][MonitorNext]_vars

\* ------------------------------------------ the poller's id store alone
\* One account whose inbox holds OldMsgs messages when the poller is first
\* started.  Mail arrives one message at a time, is checked, and leaves the
\* inbox once handled (archived by a rule or by the user); checks do not
\* overlap here (overlapping ones are part of Spec) and clearProcessedIds,
\* which has no caller, is not called.  Ids grow with the time of arrival;
\* the inbox lists the newest first.
PollInit ==
    /\ EngineIdle
    /\ monitor = NoMonitor
    /\ webhook = NoWebhook
    /\ realtime = NoRealtime
    /\ poller = [NoPoller EXCEPT !.inbox = [k \in 1..OldMsgs |-> OldMsgs + 1 - k],
                                 !.arrived = OldMsgs]

\* gmailService.fetchEmailsWithPagination(20): the newest messages with the
\* label INBOX.
fetchEmailsWithPagination(inbox, maxResults) ==
    SubSeq(inbox, 1, IF Len(inbox) < maxResults THEN Len(inbox) ELSE maxResults)

\* EmailMonitor.getUnprocessedEmails: the emails whose id is not stored.
getUnprocessedEmails(emails, stored) ==
    SelectSeq(emails, LAMBDA m : m \notin Range(stored))

\* A message arrives while every earlier one has been checked and the
\* ones that arrived before it have left the inbox.
PollArrive ==
    /\ poller.arrived < MaxArrivals
    /\ poller.check.pc = "idle"
    /\ Range(poller.inbox) \subseteq Range(localIds)
    /\ Len(poller.inbox) <= OldMsgs
    /\ poller' = [poller EXCEPT !.arrived = @ + 1,
                                !.inbox = <<poller.arrived + 1>> \o @]
    /\ UNCHANGED <<engine, monitor, webhook, realtime>>

\* checkAndProcess up to the call of ruleEngine.processEmails.
PollBegin ==
    /\ poller.check.pc = "idle"
    /\ LET emails == fetchEmailsWithPagination(poller.inbox, FetchSize)
           unprocessedEmails == getUnprocessedEmails(emails, localIds)
       IN  /\ unprocessedEmails # <<>>
           /\ poller' = [poller EXCEPT !.check =
                    [pc |-> "processing", emails |-> emails,
                     unprocessed |-> unprocessedEmails]]
    /\ UNCHANGED <<engine, monitor, webhook, realtime>>

\* processEmails has returned: every fetched email is marked as processed.
PollEnd ==
    /\ poller.check.pc = "processing"
    /\ localIds' = markAsProcessed(localIds, poller.check.emails)
    /\ poller' = [poller EXCEPT !.check = NoCheck,
                                !.lastFetched = poller.check.emails,
                                !.handled = @ \cup Range(poller.check.emails)]
    /\ UNCHANGED <<rules, instance, probe, mailbox, stores, tasks, runs, faults,
                   ghosts, monitor, webhook, realtime>>

\* The newest message, once handled, is archived: it leaves the inbox.
PollArchive ==
    /\ poller.check.pc = "idle"
    /\ poller.inbox # <<>>
    /\ Head(poller.inbox) > OldMsgs
    /\ Head(poller.inbox) \in Range(localIds)
    /\ poller' = [poller EXCEPT !.inbox = Tail(@)]
    /\ UNCHANGED <<engine, monitor, webhook, realtime>>

PollNext == PollArrive \/ PollBegin \/ PollEnd \/ PollArchive

PollSpec == PollInit /\ [][PollNext]_vars

\* ------------------------------------------- the Gmail push webhook alone
\* Messages are named by the historyId of their arrival.  Gmail publishes a
\* push per arrival; Pub/Sub delivers the pushes in any order, and anyone
\* can post to the endpoint.  Every delivery is acknowledged (or refused
\* with 400), so none is delivered twice.
HandlerIds == 1..NumHandlers

WebhookInit ==
    /\ EngineIdle
    /\ monitor = NoMonitor
    /\ poller = NoPoller
    /\ realtime = NoRealtime
    /\ webhook = NoWebhook

\* A message is added to the inbox; Gmail publishes { emailAddress, historyId }.
WebhookMail ==
    /\ webhook.history < MaxHistory
    /\ webhook' = [webhook EXCEPT !.history = @ + 1,
                                  !.pending = @ \cup {webhook.history + 1}]
    /\ UNCHANGED <<engine, monitor, poller, realtime>>

\* The requests the endpoint can receive: a push of Gmail for the account,
\* a payload without message.data, a push without emailAddress, a push for
\* an address no user has connected.
Requests ==
    [kind : {"push"}, historyId : webhook.pending]
    \cup [kind : {"invalid", "noAddress", "unknown"}, historyId : {MaxHistory}]

\* A handler that writes the cursor whatever the invocation reported.
AfterInvoke_IgnoreError(invokeError) == "update"

\* After supabase.functions.invoke: an invokeError ends the request with
\* 'Processing failed'; otherwise the history_id is updated.
AfterInvoke(invokeError) == IF invokeError THEN "failed" ELSE "update"

\* The synchronous head of the handler: the payload checks.
WebhookReceive(h) ==
    /\ webhook.handlers[h].pc = "idle"
    /\ \E req \in Requests :
         webhook' = [webhook EXCEPT
            !.pending = @ \ (IF req.kind = "push" THEN {req.historyId} ELSE {}),
            !.handlers[h] =
                IF req.kind = "invalid" THEN [IdleHandler EXCEPT !.last = "invalid"]
                ELSE IF req.kind = "noAddress" THEN [IdleHandler EXCEPT !.last = "noAddress"]
                ELSE [IdleHandler EXCEPT !.pc = "lookup", !.historyId = req.historyId,
                                         !.known = (req.kind = "push")]]
    /\ UNCHANGED <<engine, monitor, poller, realtime>>

\* Step 1: the user of the Gmail address; none (or a failed query) ends the
\* request with 'User ignored'.
WebhookLookup(h) ==
    /\ webhook.handlers[h].pc = "lookup"
    /\ \E o \in Outcomes(1, {"ok", "fail"}, MaxFaults - webhook.faults) :
         LET found == webhook.handlers[h].known /\ o[1] = "ok"
         IN  webhook' = [webhook EXCEPT
                !.faults = @ + (IF o[1] = "ok" THEN 0 ELSE 1),
                !.handlers[h] = IF found THEN [@ EXCEPT !.pc = "invoke", !.userFound = TRUE]
                                ELSE [IdleHandler EXCEPT !.last = "ignored"]]
    /\ UNCHANGED <<engine, monitor, poller, realtime>>

\* Step 2, process-rules in mode 'incremental', its steps 1-4: it reads the
\* stored history_id and asks history.list for the messages added since.
\* A list that fails is logged and leaves no messages; a request that dies
\* (500, timeout) is the invokeError of the webhook.
ProcessRulesLoad(h) ==
    /\ webhook.handlers[h].pc = "invoke"
    /\ \E o \in Outcomes(1, {"ok", "historyFail", "crash"}, MaxFaults - webhook.faults) :
         webhook' = [webhook EXCEPT
            !.faults = @ + (IF o[1] = "ok" THEN 0 ELSE 1),
            !.handlers[h] =
                IF o[1] = "crash" THEN [@ EXCEPT !.pc = "returned", !.invokeError = TRUE]
                ELSE [@ EXCEPT !.pc = "messages",
                               !.messages = IF o[1] = "ok"
                                    THEN [k \in 1..(webhook.history - webhook.cursor) |->
                                                webhook.cursor + k]
                                    ELSE <<>>]]
    /\ UNCHANGED <<engine, monitor, poller, realtime>>

\* Step 5 for the next message: its content is fetched and it is matched
\* against the rules.  A content fetch that fails skips the message; a
\* throw ends the user's processing in the per-user catch.  The response is
\* 200 either way.
ProcessRulesMessage(h) ==
    /\ webhook.handlers[h].pc = "messages"
    /\ LET H == webhook.handlers[h] IN
       IF H.messages = <<>>
       THEN webhook' = [webhook EXCEPT !.handlers[h].pc = "returned"]
       ELSE \E o \in Outcomes(1, {"ok", "skip", "throw"}, MaxFaults - webhook.faults) :
              webhook' = [webhook EXCEPT
                !.faults = @ + (IF o[1] = "ok" THEN 0 ELSE 1),
                !.evaluated = IF o[1] = "ok" THEN @ \cup {Head(H.messages)} ELSE @,
                !.handlers[h] = IF o[1] = "throw" THEN [H EXCEPT !.pc = "returned"]
                                ELSE [H EXCEPT !.messages = Tail(@)]]
    /\ UNCHANGED <<engine, monitor, poller, realtime>>

\* The invocation has returned to the webhook.
WebhookInvoked(h) ==
    /\ webhook.handlers[h].pc = "returned"
    /\ LET H == webhook.handlers[h] IN
       webhook' = [webhook EXCEPT !.handlers[h] =
            IF AfterInvoke(H.invokeError) = "update"
            THEN [H EXCEPT !.pc = "update"]
            ELSE [H EXCEPT !.pc = "idle", !.last = "failed"]]
    /\ UNCHANGED <<engine, monitor, poller, realtime>>

\* Step 3: update({ history_id: String(data.historyId) }).
WebhookUpdate(h) ==
    /\ webhook.handlers[h].pc = "update"
    /\ webhook' = [webhook EXCEPT
            !.cursor = webhook.handlers[h].historyId,
            !.handlers[h] = [@ EXCEPT !.pc = "idle", !.last = "updated"]]
    /\ UNCHANGED <<engine, monitor, poller, realtime>>

WebhookNext ==
    \/ WebhookMail
    \/ \E h \in HandlerIds :
        \/ WebhookReceive(h)
        \/ WebhookLookup(h)
        \/ ProcessRulesLoad(h)
        \/ ProcessRulesMessage(h)
        \/ WebhookInvoked(h)
        \/ WebhookUpdate(h)

WebhookSpec == WebhookInit /\ [][WebhookNext]_vars

\* ------------------------------------------------ the RealtimeService alone
\* Calls of subscribeAll and cleanup run up to their await of
\* supabase.removeChannel and resume when it resolves; a call that resumes
\* runs to its end (cleanup's continuation, then that of the subscribeAll
\* awaiting it).  Status callbacks come from the channels the client has
\* open.
CallIds == 1..NumCalls
UserIds == 1..NumUsers

RealtimeInit ==
    /\ EngineIdle
    /\ monitor = NoMonitor
    /\ poller = NoPoller
    /\ webhook = NoWebhook
    /\ realtime = NoRealtime

\* The tail of subscribeAll: callbacks, currentUserId, a new channel
\* subscribed for the user.
CreateChannel(R, userId) ==
    [R EXCEPT !.currentUserId = userId,
              !.channel = R.created + 1,
              !.live = @ \cup {R.created + 1},
              !.created = @ + 1]

\* The tail of cleanup, after removeChannel resolved.
Cleared(R, ch) ==
    [R EXCEPT !.live = @ \ {ch},
              !.channel = 0,
              !.isConnected = FALSE,
              !.currentUserId = 0]

\* subscribeAll(userId): nothing when already subscribed for the user; with
\* another channel held, cleanup first; else the channel is created.
RealtimeSubscribeAll(c) ==
    /\ realtime.calls[c].pc = "idle"
    /\ realtime.created < MaxChannels
    /\ \E userId \in UserIds :
         realtime' =
            IF realtime.channel # 0 /\ realtime.currentUserId = userId
            THEN [realtime EXCEPT !.calls[c] = [NoCall EXCEPT !.op = "skipped"]]
            ELSE IF realtime.channel # 0
            THEN [realtime EXCEPT !.calls[c] =
                    [pc |-> "removing", op |-> "subscribeAll", userId |-> userId,
                     removing |-> realtime.channel]]
            ELSE [CreateChannel(realtime, userId) EXCEPT
                    !.calls[c] = [NoCall EXCEPT !.op = "subscribed"]]
    /\ UNCHANGED <<engine, monitor, poller, webhook>>

\* cleanup(): with a channel held, removeChannel is awaited.
RealtimeCleanup(c) ==
    /\ realtime.calls[c].pc = "idle"
    /\ realtime.channel # 0
    /\ realtime' = [realtime EXCEPT !.calls[c] =
            [pc |-> "removing", op |-> "cleanup", userId |-> 0,
             removing |-> realtime.channel]]
    /\ UNCHANGED <<engine, monitor, poller, webhook>>

\* removeChannel resolves: cleanup resets the fields; a subscribeAll that
\* awaited it goes on to create its channel.
RealtimeRemoved(c) ==
    /\ realtime.calls[c].pc = "removing"
    /\ LET C == realtime.calls[c]
           R == Cleared(realtime, C.removing)
       IN  realtime' =
            IF C.op = "subscribeAll"
            THEN [CreateChannel(R, C.userId) EXCEPT
                    !.calls[c] = [NoCall EXCEPT !.op = "subscribed"]]
            ELSE [R EXCEPT !.calls[c] = [NoCall EXCEPT !.op = "cleaned"]]
    /\ UNCHANGED <<engine, monitor, poller, webhook>>

\* The subscribe callback of a channel the client has open.
RealtimeStatus ==
    /\ \E ch \in realtime.live, status \in {"SUBSCRIBED", "CHANNEL_ERROR", "TIMED_OUT", "CLOSED"} :
         /\ \A c \in CallIds : realtime.calls[c].removing # ch
         /\ realtime' = [realtime EXCEPT !.isConnected = (status = "SUBSCRIBED")]
    /\ UNCHANGED <<engine, monitor, poller, webhook>>

RealtimeNext ==
    \/ RealtimeStatus
    \/ \E c \in CallIds :
        \/ RealtimeSubscribeAll(c)
        \/ RealtimeCleanup(c)
        \/ RealtimeRemoved(c)

RealtimeSpec == RealtimeInit /\ [][RealtimeNext]_vars

\* ------------------------------------------------------------ observations
\* A marker row for the pair is in the dedup store.
MarkerExists(p) ==
    \E row \in BagToSet(processed_emails) : row.message_id = p[1] /\ row.rule_id = p[2]

\* The number of marker rows the dedup store holds for a pair.
MarkerCount(p) ==
    CopiesIn([message_id |-> p[1], rule_id |-> p[2], action_type |-> "rule_execution"],
             processed_emails)
    + CopiesIn([message_id |-> p[1], rule_id |-> p[2],
                action_type |-> "rule_execution_background"], processed_emails)

\* The rule of the table has neither an address nor a number configured.
NoChannel(r) ==
    rules[r].notification_emails = <<>> /\ rules[r].whatsapp_numbers = <<>>

\* The recipients the engine that runs task T reads from its rule.
ReadRecipients(T) ==
    IF T.kind \in ServerKinds
    THEN Range(ServerRecipients(rules[CurRule(T)]))
    ELSE Range(ClientRecipients(ClientRule(T.kind, CurRule(T))))

Attempted(T) == {[channel |-> a.channel, to |-> a.to] : a \in T.attempts}

\* The rule object the engine that runs task T evaluates.
EvaluatedRule(T) ==
    IF T.kind \in ServerKinds THEN rules[CurRule(T)]
    ELSE ClientRule(T.kind, CurRule(T))

\* The recipients the engine that runs task T sends to: the addresses it
\* reads, and the numbers it reads when an instance is connected.
DispatchTargets(T) ==
    {x \in ReadRecipients(T) : x.channel = "email" \/ instance}

\* Task T is past the inbox actions of an evaluation in which nothing threw.
PastActions(T) ==
    \/ T.pc \in {"email", "wa", "record", "mark"}
    \/ T.pc = "end" /\ T.evaluated /\ ~T.threw

\* A modify call of the evaluation of task T returned non-success.
MutationFailed(T) == \E c \in T.opResults : c.result = "fail"

\* The subject category of a rule is configured and succeeds on a message:
\* the lower-cased subject under the rule's condition, ALWAYS succeeding
\* whatever the texts and a value outside the enum testing as CONTAINS.
SubjectTest(email, rule) ==
    /\ rule.subjectFilter # <<>>
    /\ CASE rule.condition = RuleCondition_EXACT ->
                toLowerCase(email.subject) = toLowerCase(rule.subjectFilter)
          [] rule.condition = RuleCondition_STARTS_WITH ->
                startsWith(toLowerCase(email.subject), toLowerCase(rule.subjectFilter))
          [] rule.condition = RuleCondition_ENDS_WITH ->
                endsWith(toLowerCase(email.subject), toLowerCase(rule.subjectFilter))
          [] rule.condition = RuleCondition_ALWAYS -> TRUE
          [] OTHER -> includes(toLowerCase(email.subject), toLowerCase(rule.subjectFilter))

\* The sender category is configured and succeeds.
SenderTest(email, rule) ==
    /\ rule.senderFilter # <<>>
    /\ includes(toLowerCase(email.from), toLowerCase(rule.senderFilter))

\* The keyword category is configured and succeeds.
KeywordTest(email, rule) ==
    \E k \in 1..Len(rule.keywords) :
        \/ includes(toLowerCase(email.subject), toLowerCase(rule.keywords[k]))
        \/ includes(toLowerCase(email.snippet), toLowerCase(rule.keywords[k]))

\* The rule configures no category at all.
NoCategory(rule) ==
    rule.subjectFilter = <<>> /\ rule.senderFilter = <<>> /\ rule.keywords = <<>>

\* The invocations that are runs of an engine over a list of messages:
\* processEmails from the poller, from processAllTodayEmails and from the
\* inbox page, and the process-rules function.
RunKinds == {"poll", "today", "apply"} \cup ServerKinds

\* The rules of the account whose status is ACTIVE.
ActiveRules == {r \in RuleIds : rules[r].status = RuleStatus_ACTIVE}

\* The rule of the table tests the subject alone, as a substring, and
\* notifies one address.
ContainsOneAddress(r) ==
    /\ rules[r].status = RuleStatus_ACTIVE
    /\ rules[r].condition = RuleCondition_CONTAINS
    /\ rules[r].subjectFilter # <<>>
    /\ rules[r].senderFilter = <<>> /\ rules[r].keywords = <<>>
    /\ Len(rules[r].notification_emails) = 1

\* The email sends task T attempted in the evaluation it is in.
EmailAttempts(T) == {a \in T.attempts : a.channel = "email"}

\* Task T is past the dispatch of an evaluation in which nothing threw.
PastDispatch(T) ==
    \/ T.pc \in {"record", "mark"}
    \/ T.pc = "end" /\ T.evaluated /\ ~T.threw

\* At most one interval timer is active, and isRunning tells whether one is.
OneTimerIffRunning(M) ==
    /\ Cardinality(M.timers) <= 1
    /\ M.isRunning <=> M.timers # {}

\* ------------------------------------------------------------------ claims
\* C1: for every (message, rule) pair whose dedup checks never overlapped
\* another evaluation of the pair, at most one evaluation dispatched
\* notifications and at most one executed the rule's inbox actions.
C1_AtMostOncePerPair ==
    \A p \in Pairs :
        p \notin raced => dispatchCount[p] <= 1 /\ actionCount[p] <= 1

\* C2: an evaluation whose dedup check finds the pair's marker ends there:
\* the step changes no store, no mailbox label and sends nothing.
C2_MarkerStopsEvaluation ==
    [][\A t \in TaskIds :
          (/\ tasks[t].pc = "check"
           /\ MarkerExists(CurPair(tasks[t]))
           /\ tasks'[t] # tasks[t])
          => /\ tasks'[t].pc = "end"
             /\ tasks'[t].attempts = {} /\ tasks'[t].calls = {}
             /\ tasks'[t].notifRows = <<>> /\ tasks'[t].logRows = <<>>
             /\ UNCHANGED <<stores, mailbox, delivered, dispatchCount, actionCount>>]_vars

\* C2 witness: a task has just skipped a pair on finding its marker.
C2_Witness ==
    \E t \in TaskIds :
        /\ tasks[t].pc = "end"
        /\ MarkerExists(CurPair(tasks[t]))
        /\ ~tasks[t].marked
        /\ tasks[t].notifRows = <<>> /\ tasks[t].logRows = <<>>
        /\ [message_id |-> CurMsg(tasks[t]), rule_id |-> CurRule(tasks[t]),
            by |-> tasks[t].kind, hadMarker |-> TRUE] \in skips

C4_MarkerOnlyIfSent ==
    \A row \in BagToSet(processed_emails) :
        <<row.message_id, row.rule_id>> \in delivered

\* C4 (amended): a marker written by the client engine exists only for pairs
\* with a successful send, while the server has marked every pair it recorded.
C4_ClientMarkerOnlyIfSent ==
    /\ \A row \in BagToSet(processed_emails) :
          row.action_type = "rule_execution"
              => <<row.message_id, row.rule_id>> \in delivered
    /\ \A t \in TaskIds :
          (tasks[t].kind \in ServerKinds /\ tasks[t].pc = "end"
                /\ tasks[t].notifRows # <<>>) => tasks[t].marked

\* C4 witness: the client has written a marker after a successful send and
\* the server one after a match none of whose sends succeeded.
C4_Witness ==
    /\ \E row \in BagToSet(processed_emails) : row.action_type = "rule_execution"
    /\ \E row \in BagToSet(processed_emails) :
          /\ row.action_type = "rule_execution_background"
          /\ <<row.message_id, row.rule_id>> \notin delivered

\* C5: once a matching pair whose rule has no address and no number has been
\* processed, its marker exists.
C5_NoChannelStillMarked ==
    \A t \in TaskIds :
        (/\ tasks[t].pc = "end"
         /\ tasks[t].criteria # <<>>
         /\ ~tasks[t].threw
         /\ NoChannel(CurRule(tasks[t])))
        => MarkerExists(CurPair(tasks[t]))

\* C6: every matching pair that was skipped as already handled had its own
\* marker when it was skipped.
C6_SkippedOnlyByOwnMarker == \A s \in skips : s.hadMarker

\* C7: when an evaluation has attempted a send, every recipient its engine
\* reads has an attempt, the match is recorded, and it is marked if a send
\* succeeded.
C7_FanOutIndependent ==
    \A t \in TaskIds :
        (/\ tasks[t].pc \in {"end", "finish"}
         /\ tasks[t].attempts # {}
         /\ tasks[t].kind \in ClientKinds => ~tasks[t].threw)
        => /\ (instance => ReadRecipients(tasks[t]) \subseteq Attempted(tasks[t]))
           /\ tasks[t].notifRows # <<>>
           /\ tasks[t].logRows # <<>>
           /\ (tasks[t].emailSent \/ tasks[t].whatsAppSent) => tasks[t].marked

\* The notification_emails and whatsapp_numbers counts of the rule of T.
NumEmails(T) == Len(rules[CurRule(T)].notification_emails)
NumWhatsApp(T) == Len(rules[CurRule(T)].whatsapp_numbers)

\* The server evaluation of T, of a rule whose recipients are two addresses:
\* the first send came back not ok, the second ok, and the match has been
\* recorded.
FirstFailedSecondSent(T) ==
    /\ T.kind \in ServerKinds
    /\ T.pc \in {"mark", "end"}
    /\ NumEmails(T) = 2 /\ NumWhatsApp(T) = 0
    /\ T.attempts =
          {[channel |-> "email", to |-> rules[CurRule(T)].notification_emails[1],
            result |-> "fail"],
           [channel |-> "email", to |-> rules[CurRule(T)].notification_emails[2],
            result |-> "ok"]}

C10_ExceptionPerPair ==
    \A t \in TaskIds :
        tasks[t].pc = "finish"
        => /\ tasks[t].errLogs = tasks[t].thrown
           /\ tasks[t].visited = Range(tasks[t].emails) \X Range(tasks[t].ruleList)

C12_NoInstanceNoWhatsAppRecord ==
    ~instance =>
        /\ \A t \in TaskIds : \A a \in tasks[t].attempts : a.channel # "whatsapp"
        /\ \A row \in BagToSet(notifications) :
                \A k \in 1..Len(row.recipient) : row.recipient[k].channel # "whatsapp"

\* C13: for every message and every rule (the ALWAYS rule without any
\* category, which C14 covers, aside), each matcher reports a match exactly
\* when at least one configured category succeeds: the subject filter under
\* the rule's condition, the sender substring, or a keyword in the subject
\* or the snippet.
C13_OrSemantics ==
    LET e == probe.email
        r == probe.rule
        some == SubjectTest(e, r) \/ SenderTest(e, r) \/ KeywordTest(e, r)
    IN  ~(r.condition = RuleCondition_ALWAYS /\ NoCategory(r)) =>
            /\ probe.clientDone => ((probe.client # <<>>) <=> some)
            /\ probe.serverDone => ((probe.server # <<>>) <=> some)

\* C14: a rule with condition ALWAYS and no subjectFilter, senderFilter or
\* keywords matches every message, in either matcher.
C14_AlwaysMatchesEverything ==
    probe.rule.condition = RuleCondition_ALWAYS /\ NoCategory(probe.rule) =>
        /\ probe.clientDone => probe.client # <<>>
        /\ probe.serverDone => probe.server # <<>>

\* C15 as stated: a rule with a non-empty subjectFilter and condition EXACT
\* matches exactly when the lower-cased subject equals the lower-cased
\* filter.
C15_ExactIffEqual ==
    LET e == probe.email
        r == probe.rule
        equal == toLowerCase(e.subject) = toLowerCase(r.subjectFilter)
    IN  r.subjectFilter # <<>> /\ r.condition = RuleCondition_EXACT =>
            /\ probe.clientDone => ((probe.client # <<>>) <=> equal)
            /\ probe.serverDone => ((probe.server # <<>>) <=> equal)

\* C15, amended: such a rule matches exactly when the lower-cased subject
\* equals the lower-cased filter or another category it configures (sender,
\* keywords) succeeds; the subject criterion is reported exactly on
\* equality, so a rule with no other category matches iff the texts are
\* equal.
C15_ExactOrOtherCategory ==
    LET e == probe.email
        r == probe.rule
        equal == toLowerCase(e.subject) = toLowerCase(r.subjectFilter)
        other == SenderTest(e, r) \/ KeywordTest(e, r)
    IN  r.subjectFilter # <<>> /\ r.condition = RuleCondition_EXACT =>
            /\ probe.clientDone =>
                    /\ (probe.client # <<>>) <=> (equal \/ other)
                    /\ ("subject" \in Range(probe.client)) <=> equal
            /\ probe.serverDone =>
                    /\ (probe.server # <<>>) <=> (equal \/ other)
                    /\ ("subject" \in Range(probe.server)) <=> equal

\* Both matchers have decided on an EXACT rule without other categories
\* whose filter differs from the subject in case only: both match, on the
\* subject alone.
C15_Witness ==
    /\ probe.clientDone /\ probe.serverDone
    /\ probe.rule.condition = RuleCondition_EXACT
    /\ probe.rule.subjectFilter = <<"i", "n">>
    /\ probe.rule.senderFilter = <<>> /\ probe.rule.keywords = <<>>
    /\ probe.email.subject = <<"I", "n">>
    /\ probe.client = <<"subject">> /\ probe.server = <<"subject">>

\* C16: a run evaluates ACTIVE rules only (no PAUSED rule is in the list it
\* loops over or among the pairs it matched against), and a run that loaded
\* its rules has, when it is over, evaluated every ACTIVE rule against every
\* message it was given.
C16_OnlyActiveEveryActive ==
    \A t \in TaskIds :
        LET T == tasks[t] IN
        T.kind \in RunKinds =>
            /\ \A k \in 1..Len(T.ruleList) : T.ruleList[k] \in ActiveRules
            /\ \A p \in T.visited : p[2] \in ActiveRules
            /\ T.pc = "finish" /\ ~T.loadFailed =>
                    T.visited = Range(T.emails) \X ActiveRules

\* C17: a run whose rule list failed to load, or whose caller is not
\* authenticated, is over before any pair is matched or processed and
\* reports zero matches.
C17_AbortsWithZeroMatches ==
    \A t \in TaskIds :
        LET T == tasks[t] IN
        T.kind \in RunKinds /\ T.pc = "finish" /\ (T.loadFailed \/ T.authFailed) =>
            T.matches = 0 /\ T.visited = {}

\* C18: the result of a run whose rule list failed to load carries an
\* error message, which a run that found no rule or no match never does.
C18_LoadFailureReportsError ==
    \A t \in TaskIds :
        LET T == tasks[t] IN
        T.kind \in RunKinds /\ T.pc = "finish" => (T.loadFailed => T.error)

\* C19: an incremental invocation whose history.list call was rejected by
\* the provider processes the messages of the full scan instead.
C19_StaleCursorFallsBack ==
    \A t \in TaskIds :
        LET T == tasks[t] IN
        T.kind = "webhook" /\ T.historyFailed => T.emails = T.fetched

\* C20: within the evaluation of a pair the stages run in the order inbox
\* actions, dispatch, record, marker, each finished before the next
\* begins: a mutation is issued only before any send, row or marker; a send
\* only after every configured mutation has returned and before any row or
\* marker; the notification and log rows only after every send has
\* returned and before the marker; the marker only after both rows.
C20_StagesInOrder ==
    [][\A t \in TaskIds :
        LET T == tasks[t]
            U == tasks'[t]
            actionsDone ==
                {c.op : c \in T.opResults} = Range(ConfiguredOps(EvaluatedRule(T).actions))
            sendsDone == Attempted(T) = DispatchTargets(T)
        IN  /\ U.opResults # {} /\ U.opResults # T.opResults =>
                    T.attempts = {} /\ T.notifRows = <<>> /\ T.logRows = <<>> /\ ~T.marked
            /\ U.attempts # {} /\ U.attempts # T.attempts =>
                    actionsDone /\ T.notifRows = <<>> /\ T.logRows = <<>> /\ ~T.marked
            /\ U.notifRows # <<>> /\ U.notifRows # T.notifRows =>
                    actionsDone /\ sendsDone /\ ~T.marked
            /\ U.logRows # <<>> /\ U.logRows # T.logRows /\ ~U.threw =>
                    actionsDone /\ sendsDone /\ ~T.marked
            /\ U.marked /\ ~T.marked =>
                    /\ actionsDone /\ sendsDone
                    /\ Len(T.notifRows) = 1 /\ Len(T.logRows) = 1
                    /\ \A row \in Range(T.notifRows) : row \in BagToSet(notifications)
                    /\ \A row \in Range(T.logRows) : row \in BagToSet(logs)
    ]_vars

\* An evaluation that went through all four stages: two mutations, two
\* sends, both rows and the marker.
C20_Witness ==
    \E t \in TaskIds :
        LET T == tasks[t] IN
        /\ T.pc = "end" /\ T.marked
        /\ Cardinality(T.opResults) = 2
        /\ Cardinality(T.attempts) = 2
        /\ Len(T.notifRows) = 1 /\ Len(T.logRows) = 1
        /\ MarkerExists(CurPair(T))

\* C21: in a run of an engine over the rules of the rule store, a message
\* whose subject contains, whatever the case, the subjectFilter of an ACTIVE
\* CONTAINS rule with one address in notificationEmails and no marker for the
\* pair is matched on exactly one criterion, and exactly one email send, to
\* that address, is attempted.
C21_OneCriterionOneSend ==
    \A t \in TaskIds :
        LET T == tasks[t] IN
        (/\ T.kind \in RunKinds
         /\ PastDispatch(T)
         /\ ContainsOneAddress(CurRule(T))
         /\ includes(toLowerCase(Message(CurMsg(T)).subject),
                     toLowerCase(rules[CurRule(T)].subjectFilter)))
        => /\ Len(T.criteria) = 1
           /\ Cardinality(EmailAttempts(T)) = 1
           /\ \A a \in EmailAttempts(T) : a.to = rules[CurRule(T)].notification_emails[1]

\* C22: the description of an inbox action is in the match's list of
\* actions taken only when its mutation succeeded; a mutation that returned
\* non-success is not reported as taken in the activity log entry.
C22_OnlyAcceptedActionsReported ==
    \A t \in TaskIds :
        LET T == tasks[t] IN
        \A c \in T.opResults :
            c.result = "fail" =>
                /\ c.op \notin Range(T.actions)
                /\ \A k \in 1..Len(T.logRows) : c.op \notin Range(T.logRows[k].details)

\* C24: for every message and every rule, the match logic of the
\* process-rules function and ruleEngine.matchesRule reach the same
\* match / no-match decision.
C24_MatchersAgree ==
    probe.clientDone /\ probe.serverDone
        => ((probe.client # <<>>) <=> (probe.server # <<>>))

\* C23: after any sequence of start(intervalMs), setInterval(intervalMs) and
\* stop calls, the interval at which the poller schedules checkAndProcess is
\* never below the 30-second minimum.
C23_IntervalAtLeastMinimum ==
    \A tm \in monitor.timers : tm.ms >= MinIntervalMs

\* C29: after any sequence of start, stop and setInterval calls at most one
\* interval timer is active and isRunning is true exactly when one is; a
\* start while already running creates no timer and issues no check.
C29_OneTimer ==
    [][/\ OneTimerIffRunning(monitor) /\ OneTimerIffRunning(monitor')
       /\ (/\ monitor'.calls = monitor.calls + 1
           /\ monitor'.lastCall = "start"
           /\ monitor.isRunning)
          => /\ monitor'.timers = monitor.timers
             /\ monitor'.checks = monitor.checks
             /\ monitor'.nextTimer = monitor.nextTimer]_vars

\* A start was called on a running poller, whose timer is still the one
\* active.
C29_Witness ==
    /\ monitor.lastCall = "start" /\ monitor.wasRunning
    /\ monitor.calls >= 2
    /\ Cardinality(monitor.timers) = 1

\* C26: when two checkAndProcess invocations of the poller overlap, no
\* fetched email is passed to ruleEngine.processEmails by both of them.
C26_OverlappingPollsDisjoint ==
    \A t, u \in TaskIds :
        (/\ t # u
         /\ tasks[t].kind = "poll" /\ tasks[u].kind = "poll")
        => Range(tasks[t].emails) \cap Range(tasks[u].emails) = {}

\* C25: once a checkAndProcess that handled new emails has completed, every
\* email it fetched is in the local processed-id store, and no later
\* checkAndProcess passes any email a completed one fetched to
\* ruleEngine.processEmails again.
C25_CheckedOnce ==
    /\ Range(poller.lastFetched) \subseteq Range(localIds)
    /\ poller.check.pc = "processing"
            => Range(poller.check.unprocessed) \cap poller.handled = {}

\* C27: in incremental (webhook) mode no inbox message is lost: every
\* message added after the stored history cursor is supplied to rule
\* matching by the current run or by a later one; in particular the stored
\* cursor is never advanced past a message that has not been evaluated,
\* whatever the order and the outcome of the webhook deliveries.
C27_CursorNotPastUnevaluated ==
    \A m \in 1..webhook.history :
        m <= webhook.cursor => m \in webhook.evaluated

\* C28: the webhook writes the notification's historyId to the stored cursor
\* only after the process-rules invocation returned without error; with an
\* invalid payload, an address that maps to no user or an invocation that
\* reports an error the stored cursor is left unchanged.
C28_CursorWrittenAfterSuccess ==
    [][webhook'.cursor # webhook.cursor
        => \E h \in HandlerIds :
            /\ webhook.handlers[h].userFound
            /\ ~webhook.handlers[h].invokeError
            /\ webhook.handlers[h].pc = "update"
            /\ webhook'.handlers[h].last = "updated"
            /\ webhook'.cursor = webhook.handlers[h].historyId]_vars

\* One request wrote its historyId to the cursor and another, whose
\* invocation reported an error, left it alone.
C28_Witness ==
    \E h, g \in HandlerIds :
        /\ webhook.handlers[h].pc = "idle" /\ webhook.handlers[h].last = "updated"
        /\ webhook.cursor = webhook.handlers[h].historyId
        /\ webhook.cursor > 0
        /\ webhook.handlers[g].pc = "idle" /\ webhook.handlers[g].last = "failed"

\* C30: for any interleaving of subscribeAll, cleanup and channel status
\* callbacks the RealtimeService has at most one channel open, and whenever
\* it holds no channel getConnectionStatus() is false and
\* getCurrentUserId() is null.
C30_OneChannel ==
    /\ Cardinality(realtime.live) <= 1
    /\ realtime.channel = 0
            => ~realtime.isConnected /\ realtime.currentUserId = 0

====
